---- MODULE Spec2Model ----
(***************************************************************************)
(* Model of cpu_recorder.py: record_cpu samples /proc/stat twice per       *)
(* cycle, derives a utilisation percentage and appends one CSV row per     *)
(* cycle to a file or to standard output.                                  *)
(*                                                                         *)
(* Abstractions.  A float is modelled as the exact rational it denotes, in *)
(* lowest terms with a positive denominator.  The timestamp column of a    *)
(* row is not modelled.  A text line of /proc/stat is a sequence of        *)
(* tokens; a token is numeric (with its value) or not.  The bytes handed   *)
(* to the sink are the sequence `out`; the first `flushed` of them have    *)
(* left the handle's buffer and are durable.                               *)
(***************************************************************************)
EXTENDS Integers, Sequences, FiniteSets, TLC

\* ---------------------------------------------------------------- bounds
\* Largest iteration budget tried, and the number of cycles after which an
\* unbounded run (iterations = 0) is no longer followed.
MaxCycles == 3
\* Largest counter value of the exhaustively enumerated snapshots.
MaxTick == 2

\* ------------------------------------------------------- /proc/stat text
Label == [num |-> FALSE, v |-> 0]

Num(n) == [num |-> TRUE, v |-> n]

Line(c) == <<Label>> \o [i \in 1..Len(c) |-> Num(c[i])]

\* The snapshots of the specification's worked scenario.
ExamplePrev == <<100, 0, 0, 800, 50, 0, 0, 0>>

ExampleCurr == <<110, 0, 0, 850, 50, 0, 0, 0>>

\* Counters after a reset: lower than in ExamplePrev.
ResetSnap == <<200, 0, 0, 0, 0, 0, 0, 0>>

\* A first line with only four counters.
ShortSnap == <<1, 0, 0, 1>>

\* A first line with a token that is not a number.
GarbageLine == <<Label, Num(1), Label, Num(0), Num(1), Num(0)>>

TickSnapshots == {<<u, 0, 0, i, w>> : u \in 0..MaxTick, i \in 0..MaxTick, w \in 0..MaxTick}

\* What /proc/stat may show during a run of the sampling loop.
SampleLines ==
    {Line(ExamplePrev), Line(ExampleCurr), Line(ResetSnap), Line(ShortSnap),
     GarbageLine, <<>>}

\* What /proc/stat may show when the calculator is exercised exhaustively.
TickLines ==
    {Line(c) : c \in TickSnapshots}
        \cup {Line(ExamplePrev), Line(ExampleCurr), Line(ShortSnap), GarbageLine}

\* ------------------------------------------------------------ pure parts
\* f.readline().strip().split()[1:]
Parts(line) == IF line = <<>> THEN <<>> ELSE Tail(line)

\* int(p) raises ValueError on a token that is not a number.
ParseOk(line) == \A i \in 1..Len(Parts(line)) : Parts(line)[i].num

read_cpu_times(line) == [i \in 1..Len(Parts(line)) |-> Parts(line)[i].v]

RECURSIVE sum(_)
sum(s) == IF s = <<>> THEN 0 ELSE Head(s) + sum(Tail(s))

Abs(n) == IF n < 0 THEN -n ELSE n

RECURSIVE GCD(_, _)
GCD(a, b) == IF b = 0 THEN a ELSE GCD(b, a % b)

\* The float n / d (d # 0) as a rational in lowest terms.
Ratio(n, d) ==
    LET g == GCD(Abs(n), Abs(d))
        s == IF d < 0 THEN -1 ELSE 1
    IN  [num |-> (s * n) \div g, den |-> (s * d) \div g]

Zero == [num |-> 0, den |-> 1]

\* prev[3], prev[4] of the source are the 4th and 5th counters.
HasIdle(s) == Len(s) >= 5

\* Variant of cpu_percent: the total delta taken as prev minus curr.
cpu_percent_swapped(p, c) ==
    LET idle_prev == p[4] + p[5]
        idle_curr == c[4] + c[5]
        total_prev == sum(p)
        total_curr == sum(c)
        total_delta == total_prev - total_curr
        idle_delta == idle_curr - idle_prev
    IN  IF total_delta = 0 THEN Zero
        ELSE Ratio(100 * (total_delta - idle_delta), total_delta)

\* Variant of cpu_percent: idle time without the iowait counter.
cpu_percent_idle_only(p, c) ==
    LET idle_prev == p[4]
        idle_curr == c[4]
        total_prev == sum(p)
        total_curr == sum(c)
        total_delta == total_curr - total_prev
        idle_delta == idle_curr - idle_prev
    IN  IF total_delta = 0 THEN Zero
        ELSE Ratio(100 * (total_delta - idle_delta), total_delta)

cpu_percent(p, c) ==
    LET idle_prev == p[4] + p[5]
        idle_curr == c[4] + c[5]
        total_prev == sum(p)
        total_curr == sum(c)
        total_delta == total_curr - total_prev
        idle_delta == idle_curr - idle_prev
    IN  IF total_delta = 0 THEN Zero
        ELSE Ratio(100 * (total_delta - idle_delta), total_delta)

\* ------------------------------------------------------------- the sink
Header == [kind |-> "header", cpu |-> Zero]

Row(x) == [kind |-> "row", cpu |-> x]

\* A row left in the file by an earlier run.
OldRow == Row(Ratio(25, 1))

Stdout == "-"

LogFile == "cpu_usage.log"

NoSnap == <<>>

VARIABLES
    statLines,      \* the first lines /proc/stat may show during this run
    output_file,    \* argument: "-" or a path
    iterations,     \* argument: the iteration budget
    existed,        \* whether the path exists when record_cpu is called
    initial,        \* the lines the file holds when record_cpu is called
    pc,             \* the statement record_cpu executes next
    header_needed,
    count,
    prev, curr, cpu,
    out,            \* the lines this run has written to the sink handle
    flushed,        \* how many of them have left the handle's buffer
    opened, closed, \* the sink handle
    exit,           \* "none", "normal", or the exception that left the loop
    at              \* the statement of record_cpu that raised first

vars ==
    <<statLines, output_file, iterations, existed, initial, pc, header_needed,
      count, prev, curr, cpu, out, flushed, opened, closed, exit, at>>

args == <<statLines, output_file, iterations, existed, initial>>

locals == <<prev, curr, cpu>>

\* The content of the sink that survives the process.
Durable == initial \o SubSeq(out, 1, flushed)

Buffered == SubSeq(out, flushed + 1, Len(out))

Start(lines, budgets) ==
    /\ statLines = lines
    /\ iterations \in budgets
    /\ \/ /\ output_file = Stdout
          /\ existed = FALSE
          /\ initial = <<>>
       \/ /\ output_file = LogFile
          /\ \/ existed = FALSE /\ initial = <<>>
             \/ existed = TRUE /\ initial \in {<<>>, <<Header, OldRow>>}
    /\ pc = "start"
    /\ header_needed = FALSE
    /\ count = 0
    /\ prev = NoSnap
    /\ curr = NoSnap
    /\ cpu = Zero
    /\ out = <<>>
    /\ flushed = 0
    /\ opened = FALSE
    /\ closed = FALSE
    /\ exit = "none"
    /\ at = "none"

Init == Start(SampleLines, -1..MaxCycles)

\* Leaving the with block by an exception raised at the current statement.
Raise(e) ==
    /\ exit' = e
    /\ at' = pc
    /\ pc' = "exiting"

\* Lines 45-47: the target is standard output.
BindStdout ==
    /\ pc = "start"
    /\ output_file = Stdout
    /\ header_needed' = TRUE
    /\ opened' = TRUE
    /\ pc' = "header"
    /\ UNCHANGED <<args, count, locals, out, flushed, closed, exit, at>>

\* Variant of OpenFile: existence tested after open() has created the file.
OpenFileThenTestExists ==
    /\ pc = "start"
    /\ output_file # Stdout
    /\ header_needed' = FALSE
    /\ opened' = TRUE
    /\ pc' = "header"
    /\ UNCHANGED <<args, count, locals, out, flushed, closed, exit, at>>

\* Lines 48-51: the target is a path, opened for appending.
OpenFile ==
    /\ pc = "start"
    /\ output_file # Stdout
    /\ header_needed' = ~existed
    /\ opened' = TRUE
    /\ pc' = "header"
    /\ UNCHANGED <<args, count, locals, out, flushed, closed, exit, at>>

\* Line 51: open() raises (permissions, missing directory); no handle exists.
OpenFail ==
    /\ pc = "start"
    /\ output_file # Stdout
    /\ header_needed' = ~existed
    /\ exit' = "OSError"
    /\ at' = pc
    /\ pc' = "done"
    /\ UNCHANGED <<args, count, locals, out, flushed, opened, closed>>

\* Lines 53-57: enter the with block, write the header if needed, count = 0.
WriteHeader ==
    /\ pc = "header"
    /\ out' = IF header_needed THEN Append(out, Header) ELSE out
    /\ count' = 0
    /\ pc' = "loop"
    /\ UNCHANGED <<args, header_needed, locals, flushed, opened, closed, exit, at>>

\* Line 56: the write of the header raises.
WriteHeaderFail ==
    /\ pc = "header"
    /\ header_needed
    /\ Raise("OSError")
    /\ UNCHANGED <<args, header_needed, count, locals, out, flushed, opened, closed>>

\* Variants of LoopGuard: an off-by-one comparison; no test for 0.
LoopGuardLE == iterations = 0 \/ count <= iterations

LoopGuardNoZero == count < iterations

\* Line 58: the loop condition.
LoopGuard == iterations = 0 \/ count < iterations

\* Line 58, condition true: another cycle starts.
LoopEnter ==
    /\ pc = "loop"
    /\ LoopGuard
    /\ count <= MaxCycles
    /\ pc' = "read_prev"
    /\ UNCHANGED <<args, header_needed, count, locals, out, flushed, opened, closed, exit, at>>

\* Line 58, condition false: the with block is left normally.
LoopExit ==
    /\ pc = "loop"
    /\ ~LoopGuard
    /\ exit' = "normal"
    /\ pc' = "exiting"
    /\ UNCHANGED <<args, header_needed, count, locals, out, flushed, opened, closed, at>>

\* Line 23: the first snapshot.
ReadPrev ==
    /\ pc = "read_prev"
    /\ \E line \in statLines :
          /\ ParseOk(line)
          /\ prev' = read_cpu_times(line)
    /\ pc' = "sleep"
    /\ UNCHANGED <<args, header_needed, count, curr, cpu, out, flushed, opened, closed, exit, at>>

\* Variant of ReadFail: a placeholder row is written before the error leaves.
ReadFailWritesRow ==
    /\ pc \in {"read_prev", "read_curr"}
    /\ \/ Raise("OSError")
       \/ /\ \E line \in statLines : ~ParseOk(line)
          /\ Raise("ValueError")
    /\ out' = Append(out, Row(Zero))
    /\ UNCHANGED <<args, header_needed, count, locals, flushed, opened, closed>>

\* Lines 17-19 called from line 23 or 25: /proc/stat is unreadable, or a
\* token read from it is not a number.
ReadFail ==
    /\ pc \in {"read_prev", "read_curr"}
    /\ \/ Raise("OSError")
       \/ /\ \E line \in statLines : ~ParseOk(line)
          /\ Raise("ValueError")
    /\ UNCHANGED <<args, header_needed, count, locals, out, flushed, opened, closed>>

\* Line 24: time.sleep(interval).
Sleep ==
    /\ pc = "sleep"
    /\ pc' = "read_curr"
    /\ UNCHANGED <<args, header_needed, count, locals, out, flushed, opened, closed, exit, at>>

\* Line 25: the second snapshot.
ReadCurr ==
    /\ pc = "read_curr"
    /\ \E line \in statLines :
          /\ ParseOk(line)
          /\ curr' = read_cpu_times(line)
    /\ pc' = "compute"
    /\ UNCHANGED <<args, header_needed, count, prev, cpu, out, flushed, opened, closed, exit, at>>

\* Lines 26-34 and the assignment of line 59.
Compute ==
    /\ pc = "compute"
    /\ HasIdle(prev) /\ HasIdle(curr)
    /\ cpu' = cpu_percent(prev, curr)
    /\ pc' = "write_row"
    /\ UNCHANGED <<args, header_needed, count, prev, curr, out, flushed, opened, closed, exit, at>>

\* Lines 26-27: a snapshot with fewer than five counters.
ComputeFail ==
    /\ pc = "compute"
    /\ ~(HasIdle(prev) /\ HasIdle(curr))
    /\ Raise("IndexError")
    /\ UNCHANGED <<args, header_needed, count, locals, out, flushed, opened, closed>>

\* Variant of WriteRow: the header test sits inside the loop.
WriteRowWithHeader ==
    /\ pc = "write_row"
    /\ out' = (IF header_needed THEN Append(out, Header) ELSE out) \o <<Row(cpu)>>
    /\ pc' = "flush"
    /\ UNCHANGED <<args, header_needed, count, locals, flushed, opened, closed, exit, at>>

\* Line 60: the row goes to the handle.
WriteRow ==
    /\ pc = "write_row"
    /\ out' = Append(out, Row(cpu))
    /\ pc' = "flush"
    /\ UNCHANGED <<args, header_needed, count, locals, flushed, opened, closed, exit, at>>

\* Line 60: the write raises; nothing of the row is accepted.
WriteRowFail ==
    /\ pc = "write_row"
    /\ Raise("OSError")
    /\ UNCHANGED <<args, header_needed, count, locals, out, flushed, opened, closed>>

\* Variant of Flush: the row stays in the buffer.
FlushSkipped ==
    /\ pc = "flush"
    /\ pc' = "incr"
    /\ UNCHANGED <<args, header_needed, count, locals, out, flushed, opened, closed, exit, at>>

\* Line 61: everything buffered becomes durable.
Flush ==
    /\ pc = "flush"
    /\ flushed' = Len(out)
    /\ pc' = "incr"
    /\ UNCHANGED <<args, header_needed, count, locals, out, opened, closed, exit, at>>

\* Line 61: the flush raises (disk full, broken pipe); the buffer is kept.
FlushFail ==
    /\ pc = "flush"
    /\ Raise("OSError")
    /\ UNCHANGED <<args, header_needed, count, locals, out, flushed, opened, closed>>

\* Line 62.  The snapshots of the finished cycle are dead from here on.
Incr ==
    /\ pc = "incr"
    /\ count' = count + 1
    /\ prev' = NoSnap
    /\ curr' = NoSnap
    /\ cpu' = Zero
    /\ pc' = "loop"
    /\ UNCHANGED <<args, header_needed, out, flushed, opened, closed, exit, at>>

InWith == {"header", "loop", "read_prev", "sleep", "read_curr", "compute", "write_row", "flush", "incr"}

\* KeyboardInterrupt delivered at a statement of the with block.
Interrupt ==
    /\ pc \in InWith
    /\ Raise("KeyboardInterrupt")
    /\ UNCHANGED <<args, header_needed, count, locals, out, flushed, opened, closed>>

\* Variant of Close: close() called after the loop instead of a with block.
CloseOnNormalExitOnly ==
    /\ pc = "exiting"
    /\ closed' = (exit = "normal")
    /\ flushed' = Len(out)
    /\ pc' = "done"
    /\ UNCHANGED <<args, header_needed, count, locals, out, opened, exit, at>>

\* Line 53, __exit__: the handle is closed, its buffer flushed first.
Close ==
    /\ pc = "exiting"
    /\ closed' = TRUE
    /\ flushed' = Len(out)
    /\ pc' = "done"
    /\ UNCHANGED <<args, header_needed, count, locals, out, opened, exit, at>>

\* Line 53, __exit__: the flush inside close() raises; the handle is closed
\* all the same and what was buffered is lost.
CloseFlushFail ==
    /\ pc = "exiting"
    /\ Buffered # <<>>
    /\ closed' = TRUE
    /\ exit' = "OSError"
    /\ pc' = "done"
    /\ UNCHANGED <<args, header_needed, count, locals, out, flushed, opened, at>>

\* The process is terminated abruptly (SIGKILL, power loss): no statement
\* runs any more and what is buffered never reaches the sink.
Kill ==
    /\ pc \notin {"done", "killed"}
    /\ pc' = "killed"
    /\ UNCHANGED <<args, header_needed, count, locals, out, flushed, opened, closed, exit, at>>

Step ==
    \/ BindStdout
    \/ OpenFile
    \/ WriteHeader
    \/ LoopEnter
    \/ LoopExit
    \/ ReadPrev
    \/ Sleep
    \/ ReadCurr
    \/ Compute
    \/ WriteRow
    \/ Flush
    \/ Incr
    \/ Close

Fault ==
    \/ OpenFail
    \/ WriteHeaderFail
    \/ ReadFail
    \/ ComputeFail
    \/ WriteRowFail
    \/ FlushFail
    \/ CloseFlushFail
    \/ Interrupt
    \/ Kill

Next == Step \/ Fault

Spec == Init /\ [][Next]_vars

\* The calculator on every pair of bounded snapshots, one cycle per run.
CalcInit == Start(TickLines, {1})

CalcSpec == CalcInit /\ [][Next]_vars

\* The interpreter keeps executing statements: the next one runs, or raises
\* the IndexError its operands force.
LiveSpec == Init /\ [][Next]_vars /\ WF_vars(Step \/ ComputeFail)

\* ----------------------------------------------------------- properties
NumKind(s, k) == Cardinality({i \in 1..Len(s) : s[i].kind = k})

IsPrefix(s, t) == Len(s) <= Len(t) /\ SubSeq(t, 1, Len(s)) = s

FreshFile == output_file = LogFile /\ ~existed

\* No read or write has failed and the run was neither interrupted nor killed.
NoFault == exit \in {"none", "normal"} /\ pc # "killed"

\* The header step has been executed and did not raise.
PastHeader ==
    \/ pc \in InWith \ {"header"}
    \/ pc \in {"exiting", "done"} /\ at \notin {"start", "header"}

\* The statements of a cycle up to and including the row write of line 60.
PreWrite == {"read_prev", "sleep", "read_curr", "compute", "write_row"}

C1_Final ==
    (pc = "done" /\ exit = "normal" /\ FreshFile /\ iterations > 0)
        => /\ count = iterations
           /\ Len(Durable) = iterations + 1
           /\ Durable[1] = Header
           /\ \A i \in 2..Len(Durable) : Durable[i].kind = "row"

\* C1: with a budget N > 0 and a target file absent at open time, a run in
\* which nothing fails terminates, after exactly N cycles, and the file then
\* holds N + 1 lines: the header followed by N data rows.
C1_FreshFileHoldsNPlus1Lines ==
    /\ []C1_Final
    /\ (FreshFile /\ iterations > 0 /\ []NoFault) => <>(pc = "done" /\ exit = "normal")

C1_Witness ==
    /\ pc = "done" /\ exit = "normal" /\ FreshFile
    /\ iterations = 3 /\ count = 3 /\ Len(Durable) = 4

\* C2: with iterations = 0 the loop never leaves by its own condition: from
\* the loop test the run goes on to the first read of another cycle, unless
\* it is interrupted or killed, and it never exits normally.
C2_ZeroBudgetNeverStops ==
    [][iterations = 0
         => /\ exit' # "normal"
            /\ pc = "loop"
                 => \/ pc' = "read_prev" /\ count' = count
                    \/ exit' = "KeyboardInterrupt"
                    \/ pc' = "killed"]_vars

C2_Witness == iterations = 0 /\ pc = "read_prev" /\ count = 2 /\ exit = "none"

\* C3: a run writes exactly one header when the target is standard output
\* or a path absent at open time and none when the path exists, whatever
\* the number of cycles; a header written precedes every data row.
C3_HeaderCount ==
    /\ NumKind(out, "header") <= 1
    /\ PastHeader =>
          NumKind(out, "header") = IF output_file = Stdout \/ ~existed THEN 1 ELSE 0
    /\ NumKind(out, "header") = 1 => out[1] = Header

C3_Witness ==
    /\ pc = "done" /\ exit = "normal" /\ count = 2
    /\ output_file = LogFile /\ existed /\ NumKind(out, "header") = 0
    /\ NumKind(out, "row") = 2

\* C4: a file target that is absent or present but empty when record_cpu
\* opens it receives the header as its first line, before any data row,
\* exactly once.
C4_HeaderOnNewOrEmpty ==
    (output_file = LogFile /\ initial = <<>> /\ PastHeader)
        => /\ out # <<>>
           /\ out[1] = Header
           /\ NumKind(out, "header") = 1

RECURSIVE Total(_)
Total(s) == IF Len(s) = 0 THEN 0 ELSE s[Len(s)] + Total(SubSeq(s, 1, Len(s) - 1))

\* C5: the utilisation of two snapshots is 0 when total_delta = sum(curr) -
\* sum(prev) is 0 and 100 * (total_delta - idle_delta) / total_delta
\* otherwise, idle_delta being the change of the 4th plus 5th counter; the
\* scenario's snapshots give 100 * 10 / 60 = 50 / 3.
C5_Utilization ==
    pc = "write_row" =>
        LET td == Total(curr) - Total(prev)
            id == (curr[4] + curr[5]) - (prev[4] + prev[5])
        IN  /\ td = 0 => cpu = Zero
            /\ td # 0 => cpu.den > 0 /\ cpu.num * td = 100 * (td - id) * cpu.den
            /\ (prev = ExamplePrev /\ curr = ExampleCurr) => cpu = [num |-> 50, den |-> 3]

C5_Witness ==
    /\ pc = "write_row" /\ prev = ExamplePrev /\ curr = ExampleCurr
    /\ cpu = [num |-> 50, den |-> 3]

InRange(x) == 0 <= x.num /\ x.num <= 100 * x.den

\* No counter is lower in the second snapshot than in the first.
NonDecreasing(p, c) == Len(p) <= Len(c) /\ \A i \in 1..Len(p) : p[i] <= c[i]

\* C6 as stated: every row written has a cpu_percent within [0, 100].
C6_EveryRowInRange ==
    \A i \in 1..Len(out) : out[i].kind = "row" => InRange(out[i].cpu)

\* C6 amended: the row of a cycle whose second snapshot has no counter lower
\* than the first has a cpu_percent within [0, 100].
C6_RowInRangeIfNonDecreasing ==
    (pc \in {"flush", "incr"} /\ NonDecreasing(prev, curr))
        => out[Len(out)].kind = "row" /\ InRange(out[Len(out)].cpu)

C6_Witness ==
    /\ pc = "flush" /\ NonDecreasing(prev, curr)
    /\ out[Len(out)].cpu = [num |-> 100, den |-> 1]

\* C7: a cycle that a failed read, a short snapshot or an interruption ends
\* before its row is written adds nothing to the sink and leaves what was
\* written before as it was; rows are only ever appended; between cycles
\* and up to the row write the number of data rows is the number of
\* completed cycles.
C7_CycleAllOrNothing ==
    [][/\ IsPrefix(out, out') /\ flushed <= flushed' /\ initial' = initial
       /\ (pc \in PreWrite /\ pc' = "exiting")
             => out' = out /\ flushed' = flushed /\ count' = count
       /\ (pc = "exiting" /\ at \in PreWrite)
             => out' = out /\ NumKind(out', "row") = count' /\ pc' \in {"done", "killed"}
       /\ pc' \in PreWrite \cup {"loop"} => NumKind(out', "row") = count']_vars

C7_Witness ==
    /\ pc = "done" /\ at = "read_curr" /\ exit = "ValueError"
    /\ count = 1 /\ NumKind(out, "row") = 1 /\ flushed = Len(out)

\* C8: whenever record_cpu has returned or raised after the sink was
\* opened, the sink is closed.
C8_SinkClosedOnExit == (pc = "done" /\ opened) => closed

C8_Witness == pc = "done" /\ opened /\ closed /\ exit = "IndexError"

\* C9: each data row is flushed before the counter is incremented: at the
\* increment and at the loop test no data row is buffered, and at any
\* moment, also after an abrupt termination, the data rows of all completed
\* cycles are durable.
C9_RowsFlushedPerCycle ==
    /\ NumKind(SubSeq(out, 1, flushed), "row") >= count
    /\ pc \in {"incr", "loop"} => NumKind(Buffered, "row") = 0

C9_Witness ==
    /\ pc = "killed" /\ count = 2
    /\ NumKind(SubSeq(out, 1, flushed), "row") = 2

\* C10 as stated: for every budget other than 0, negative ones included, the
\* loop never stops with count different from iterations.
C10_StopsOnlyAtBudget == exit = "normal" => count = iterations

\* C10 amended: the loop stops only with a non-zero budget; with a positive
\* one when count equals it, with a negative one after zero cycles.
C10_StopsAtBudgetOrAtOnce ==
    exit = "normal" =>
        \/ iterations > 0 /\ count = iterations
        \/ iterations < 0 /\ count = 0

C10_Witness == pc = "done" /\ exit = "normal" /\ iterations < 0 /\ count = 0
====
